---------------------------- MODULE Spec2Model ----------------------------
(***************************************************************************)
(* A model of src/shell.c: the read loop of main, the built-in table and   *)
(* lookup, piped_exec (token scan, pipes, redirect flags), program_exec    *)
(* (fork, process groups, terminal foreground, wait) and exec_with_pathres *)
(* (literal attempt, PATH walk, command_not_found).                        *)
(*                                                                         *)
(* The kernel is modelled by what the calls of shell.c observe of it:      *)
(* descriptor tables per process, pipes with their open ends, process      *)
(* groups, the terminal's foreground group, and the reply of every call    *)
(* that can fail.  C strings are TLA+ strings; NULL is the value NULL.     *)
(***************************************************************************)
EXTENDS Integers, Sequences, FiniteSets, TLC

(***************************************************************************)
(* Bounds of the model.                                                    *)
(***************************************************************************)
\* longest input line, in tokens
MaxTokens == 5
\* pipes that can exist at once (pipe() fails when none is left)
MaxPipes == 2
\* pids the kernel has for the children of the shell
MaxChildren == 2
\* longest PATH value, in characters, of the path-resolution specification
MaxPathLen == 4
\* longest input line, in tokens, of the lookup specification
MaxLookupTokens == 2

(***************************************************************************)
(* Program constants.                                                      *)
(***************************************************************************)
PIPE_READ == 0
PIPE_WRITE == 1
STDIN_FILENO == 0
STDOUT_FILENO == 1
STDERR_FILENO == 2
EXIT_FAILURE == 1
\* char inbuf[128]; char outbuf[128];
BUFSZ == 128

\* the null pointer; no token and no PATH value is this string
NULL == "NULL"
\* an array slot malloc returned and the code has not written yet
UNINIT == "UNINIT"

(***************************************************************************)
(* Process ids.  The shell is ShellPid.  LauncherPgid is the process group *)
(* of the process that started the shell, in which the shell still is when *)
(* its starter did not make it a group leader.                             *)
(***************************************************************************)
LauncherPgid == 1
ShellPid == 2
ChildPids == (ShellPid + 1)..(ShellPid + MaxChildren)
\* no process group: the terminal's foreground group when stdin is no terminal
NoPgrp == 0

(***************************************************************************)
(* C strings.                                                              *)
(***************************************************************************)
strlen(s) == Len(s)

\* strcmp(a, b) == 0
strcmp0(a, b) == a = b

RECURSIVE Rep(_, _)
Rep(c, n) == IF n = 0 THEN "" ELSE c \o Rep(c, n - 1)

\* the string without its leading ':' characters (strtok skipping delimiters)
RECURSIVE SkipDelim(_)
SkipDelim(s) ==
  IF Len(s) > 0 /\ SubSeq(s, 1, 1) = ":" THEN SkipDelim(SubSeq(s, 2, Len(s))) ELSE s

\* the number of leading characters of s that are not ':'
RECURSIVE SpanLen(_)
SpanLen(s) ==
  IF Len(s) = 0 \/ SubSeq(s, 1, 1) = ":" THEN 0 ELSE 1 + SpanLen(SubSeq(s, 2, Len(s)))

(***************************************************************************)
(* strtok(-, ":") on the text that is left: the next token (NULL when      *)
(* there is none) and the text left after it.                              *)
(***************************************************************************)
strtok(s) ==
  LET t == SkipDelim(s)
      n == SpanLen(t)
  IN IF Len(t) = 0
       THEN [tok |-> NULL, rest |-> ""]
       ELSE [tok |-> SubSeq(t, 1, n),
             rest |-> IF n + 1 >= Len(t) THEN "" ELSE SubSeq(t, n + 2, Len(t))]

(***************************************************************************)
(* Tokens and input lines.  The tokenizer (tokenizer.h, not part of        *)
(* shell.c) hands over a sequence of strings; tokens_get_token returns     *)
(* NULL past its end.                                                      *)
(***************************************************************************)
\* a token too long for inbuf / outbuf
LongTok == Rep("x", BUFSZ)

\* the token sequences of at most n tokens over the tokens `toks`
RECURSIVE Tails(_, _)
Tails(toks, n) ==
  IF n = 0 THEN {<<>>}
  ELSE LET shorter == Tails(toks, n - 1)
       IN shorter \cup {Append(t, x) : t \in {u \in shorter : Len(u) = n - 1}, x \in toks}

\* the empty line, and the lines of at most n tokens that start with a token
\* of `first` and go on with tokens of `toks`
LinesOver(first, toks, n) ==
  {<<>>} \cup {<<f>> \o t : f \in first, t \in IF n = 0 THEN {} ELSE Tails(toks, n - 1)}

tokens_get_length(toks) == Len(toks)
tokens_get_token(toks, n) == IF n < Len(toks) THEN toks[n + 1] ELSE NULL

(***************************************************************************)
(* The built-in table and its lookup.                                      *)
(***************************************************************************)
cmd_table ==
  << [fun |-> "cmd_help", cmd |-> "?",    doc |-> "show this help menu"],
     [fun |-> "cmd_exit", cmd |-> "exit", doc |-> "exit the command shell"],
     [fun |-> "cmd_cd",   cmd |-> "cd",
      doc |-> "changes the working directory to the given directory"],
     [fun |-> "cmd_pwd",  cmd |-> "pwd",
      doc |-> "prints the current working directory to standard output"] >>

\* a lookup that would take the beginning of a name for the name
lookup_prefix(cmd) ==
  LET hits == {k \in 1..Len(cmd_table) :
                 /\ cmd # NULL
                 /\ Len(cmd) <= Len(cmd_table[k].cmd)
                 /\ SubSeq(cmd_table[k].cmd, 1, Len(cmd)) = cmd}
  IN IF hits = {} THEN -1
     ELSE (CHOOSE k \in hits : \A m \in hits : k <= m) - 1

\* the index (from 0) of the first entry whose name is cmd, -1 when none
lookup(cmd) ==
  LET hits == {k \in 1..Len(cmd_table) : cmd # NULL /\ strcmp0(cmd_table[k].cmd, cmd)}
  IN IF hits = {} THEN -1
     ELSE (CHOOSE k \in hits : \A m \in hits : k <= m) - 1


(***************************************************************************)
(* What a descriptor refers to.                                            *)
(***************************************************************************)
Obj(k, p, n) == [kind |-> k, pipe |-> p, name |-> n]
Closed == Obj("closed", 0, "")
\* the streams the shell was started with
StdinObj == Obj("stdin", 0, "")
StdoutObj == Obj("stdout", 0, "")
StderrObj == Obj("stderr", 0, "")
PipeR(k) == Obj("pipe_r", k, "")
PipeW(k) == Obj("pipe_w", k, "")
FileR(n) == Obj("file_r", 0, n)
FileW(n) == Obj("file_w", 0, n)

\* descriptor numbers of one process
MaxFd == STDERR_FILENO + 2 * MaxPipes
Fds == 0..MaxFd
Pipes == 1..MaxPipes

\* the descriptor table a process is started with
InitFds == [fd \in Fds |-> CASE fd = STDIN_FILENO -> StdinObj
                             [] fd = STDOUT_FILENO -> StdoutObj
                             [] fd = STDERR_FILENO -> StderrObj
                             [] OTHER -> Closed]

\* close(fd); closing -1 or a closed descriptor changes nothing (EBADF)
close(tab, fd) == IF fd \in Fds THEN [tab EXCEPT ![fd] = Closed] ELSE tab

\* dup2(oldfd, newfd): -1 when oldfd is not an open descriptor
dup2_ok(tab, oldfd) == oldfd \in Fds /\ tab[oldfd] # Closed
dup2(tab, oldfd, newfd) == [tab EXCEPT ![newfd] = tab[oldfd]]

\* the two lowest free descriptors, as pipe() hands them out
FreeFds(tab) == {fd \in Fds : tab[fd] = Closed}
LowestFree(tab) == CHOOSE fd \in FreeFds(tab) : \A g \in FreeFds(tab) : fd <= g
SecondFree(tab) ==
  CHOOSE fd \in FreeFds(tab) \ {LowestFree(tab)} :
    \A g \in FreeFds(tab) \ {LowestFree(tab)} : fd <= g

(***************************************************************************)
(* State.                                                                  *)
(***************************************************************************)
VARIABLES
  \* ---- the environment the shell runs in
  stdin_tty,             \* isatty(STDIN_FILENO)
  shell_pgrp,            \* getpgrp() of the shell
  envPATH,               \* getenv("PATH"), NULL when unset
  fsys,                  \* the files execv can be asked for and what it answers
  fg,                    \* the terminal's foreground process group
  pipebuf,               \* pipe -> chunks written and not yet read
  cwd,                   \* the shell's working directory
  files,                 \* what was done to named files since the line was read
  last_pid,              \* the pid the kernel handed out last
  \* ---- globals of shell.c
  shell_is_interactive,
  shell_pgid,
  input_redirect,
  output_redirect,
  inbuf,
  outbuf,
  \* ---- the shell process: where it is, and the locals of piped_exec and
  \* ---- program_exec
  pc,
  tokens,
  args,
  i,
  j,
  prevtok,
  prevpipe,
  curpipe,
  site,                  \* which call of program_exec is running
  pid,                   \* program_exec's pid
  shfds,                 \* the shell's descriptor table
  sigttou,               \* the shell's disposition of SIGTTOU
  jobsig,                \* its disposition of SIGINT, SIGQUIT, SIGTERM, SIGTSTP, SIGCONT
  shexit,                \* how the shell process ended
  \* ---- the children
  procs,
  \* ---- what was observed since the line was read
  out,                   \* writes that reached the shell's standard output
  dispatch               \* what main did with the line

constVars == <<stdin_tty, shell_pgrp, envPATH, fsys>>
envVars == <<constVars, fg, pipebuf, cwd, files, last_pid>>
globVars == <<shell_is_interactive, shell_pgid, input_redirect, output_redirect,
              inbuf, outbuf>>
scanVars == <<tokens, args, i, j, prevtok, prevpipe, curpipe, site, pid>>
shVars == <<pc, shfds, sigttou, jobsig, shexit>>
obsVars == <<out, dispatch>>
vars == <<envVars, globVars, scanVars, shVars, procs, obsVars>>

(***************************************************************************)
(* A child process.                                                        *)
(*   st      none | forked | run | stopped | zombie                        *)
(*   pgid    its process group                                             *)
(*   fds     its descriptor table                                          *)
(*   argv    the argument vector it was forked with (up to the first NULL) *)
(*   pipein, pipeout, inred, outred, inb, outb                             *)
(*           program_exec's parameters and the globals as forked           *)
(*   tried   the paths exec_with_pathres handed to execv, in order         *)
(*   resolved  how exec_with_pathres ended: none | ok | notfound | killed  *)
(*   execed  an execv succeeded                                            *)
(*   kind    what the executed program does                                *)
(*   sig     its disposition of the job-control signals                    *)
(*   status  how it ended                                                  *)
(*   said    the name it reported as not found                             *)
(***************************************************************************)
NoProc ==
  [st |-> "none", pgid |-> NoPgrp, fds |-> [fd \in Fds |-> Closed], argv |-> <<>>,
   pipein |-> -1, pipeout |-> -1, inred |-> 0, outred |-> 0, inb |-> "", outb |-> "",
   tried |-> <<>>, resolved |-> "none", execed |-> FALSE, kind |-> "none", sig |-> "DFL",
   status |-> "none", said |-> "none"]

LiveStates == {"forked", "run", "stopped"}
Alive(p) == procs[p].st \in LiveStates
Exists(p) == procs[p].st # "none"

\* a process that ended holds no descriptor
ProcFds(p) == IF Alive(p) THEN procs[p].fds ELSE [fd \in Fds |-> Closed]

ShellAlive == shexit.how = "none"

\* some live process holds the write end of pipe k
WriterOpen(k) ==
  \/ ShellAlive /\ \E fd \in Fds : shfds[fd] = PipeW(k)
  \/ \E p \in ChildPids : \E fd \in Fds : ProcFds(p)[fd] = PipeW(k)

\* a pipe no live process holds an end of is gone
PipeInUse(k) ==
  \/ ShellAlive /\ \E fd \in Fds : shfds[fd].pipe = k
  \/ \E p \in ChildPids : \E fd \in Fds : ProcFds(p)[fd].pipe = k

(***************************************************************************)
(* Process groups and the terminal.                                        *)
(***************************************************************************)
\* the ids that are process groups of the session
Pgrps == {shell_pgrp} \cup {procs[p].pgid : p \in {q \in ChildPids : Exists(q)}}
\* the ids that are processes of the session
Pids == {ShellPid} \cup {p \in ChildPids : Exists(p)}

(***************************************************************************)
(* tcsetpgrp(STDIN_FILENO, g) by the shell: the foreground groups it can   *)
(* leave behind, and whether it returned -1.  It fails when standard input *)
(* is no terminal; when g is a process group of the session it succeeds;   *)
(* when g is only the pid of a process of the session POSIX has it fail    *)
(* with EPERM and Linux has it succeed; otherwise it fails.                *)
(***************************************************************************)
tcsetpgrp(g) ==
  IF ~stdin_tty THEN {[fg |-> fg, rc |-> -1]}
  ELSE IF g \in Pgrps THEN {[fg |-> g, rc |-> 0]}
  ELSE IF g \in Pids THEN {[fg |-> g, rc |-> 0], [fg |-> fg, rc |-> -1]}
  ELSE {[fg |-> fg, rc |-> -1]}


(***************************************************************************)
(* Observations.                                                           *)
(***************************************************************************)
Said(log, who, what, text) == Append(log, [who |-> who, what |-> what, text |-> text])

NoExit == [how |-> "none", code |-> 0]
\* what was done with the line: its first token, what lookup returned, what
\* main ran, the pid of the first child forked for the line, the number of
\* pipes piped_exec made, and what standard input and standard output were
\* when a stage called exec_with_pathres, stage after stage
NoDispatch ==
  [tok0 |-> NULL, fundex |-> -1, ran |-> "none", first |-> 0, pipes |-> 0, wired |-> <<>>]

\* the prompt main prints, only when interactive
Prompt(log) == IF shell_is_interactive THEN Said(log, ShellPid, "prompt", "") ELSE log

(***************************************************************************)
(* The start of the process: main has not called init_shell yet.  The      *)
(* shell is started with a terminal as standard input or without one, as   *)
(* the leader of its process group or as a member of its starter's group   *)
(* (in the foreground either way), with the PATH values `paths` and the    *)
(* file systems `fss` to choose from.                                      *)
(***************************************************************************)
InitWith(paths, fss) ==
  /\ stdin_tty \in BOOLEAN
  /\ shell_pgrp \in (IF stdin_tty THEN {ShellPid, LauncherPgid} ELSE {ShellPid})
  /\ envPATH \in paths
  /\ fsys \in fss
  /\ fg = (IF stdin_tty THEN shell_pgrp ELSE NoPgrp)
  /\ pipebuf = [k \in Pipes |-> 0]
  /\ cwd = "/"
  /\ files = {}
  /\ last_pid = ShellPid
  /\ shell_is_interactive = FALSE
  /\ shell_pgid = 0
  /\ input_redirect = 0
  /\ output_redirect = 0
  /\ inbuf = ""
  /\ outbuf = ""
  /\ pc = "init"
  /\ tokens = <<>>
  /\ args = <<>>
  /\ i = 0
  /\ j = 0
  /\ prevtok = NULL
  /\ prevpipe = <<-1, -1>>
  /\ curpipe = <<-1, -1>>
  /\ site = "none"
  /\ pid = 0
  /\ shfds = InitFds
  /\ sigttou = "DFL"
  /\ jobsig = "DFL"
  /\ shexit = NoExit
  /\ procs = [p \in ChildPids |-> NoProc]
  /\ out = <<>>
  /\ dispatch = NoDispatch

\* an init_shell that would leave the keyboard's signals at their defaults
init_shell_default ==
  /\ pc = "init"
  /\ stdin_tty => fg = shell_pgrp
  /\ shell_is_interactive' = stdin_tty
  /\ IF stdin_tty
       THEN /\ shell_pgid' = ShellPid
            /\ \E r \in tcsetpgrp(ShellPid) : fg' = r.fg
            /\ out' = Said(out, ShellPid, "prompt", "")
       ELSE UNCHANGED <<shell_pgid, fg, out>>
  /\ pc' = "read"
  /\ UNCHANGED <<constVars, pipebuf, cwd, files, last_pid, input_redirect,
                 output_redirect, inbuf, outbuf, scanVars, shfds, sigttou, jobsig, shexit,
                 procs, dispatch>>

(***************************************************************************)
(* init_shell, and the first prompt of main.  The loop on tcgetpgrp is     *)
(* left only when the shell's group is the foreground group.  shell_pgid   *)
(* becomes getpid(), which is the shell's group only when the shell leads  *)
(* its group.                                                              *)
(***************************************************************************)
init_shell ==
  /\ pc = "init"
  /\ stdin_tty => fg = shell_pgrp
  /\ shell_is_interactive' = stdin_tty
  /\ IF stdin_tty
       THEN /\ shell_pgid' = ShellPid
            /\ \E r \in tcsetpgrp(ShellPid) : fg' = r.fg
            /\ jobsig' = "IGN"
            /\ out' = Said(out, ShellPid, "prompt", "")
       ELSE UNCHANGED <<shell_pgid, fg, jobsig, out>>
  /\ pc' = "read"
  /\ UNCHANGED <<constVars, pipebuf, cwd, files, last_pid, input_redirect,
                 output_redirect, inbuf, outbuf, scanVars, shfds, sigttou, shexit,
                 procs, dispatch>>

(***************************************************************************)
(* The locals of piped_exec once it has returned.                          *)
(***************************************************************************)
Returned ==
  /\ args' = <<>>
  /\ i' = 0
  /\ j' = 0
  /\ prevtok' = NULL
  /\ prevpipe' = <<-1, -1>>
  /\ curpipe' = <<-1, -1>>
  /\ site' = "none"
  /\ pid' = 0

\* a redirect that would stay in force once it has been set
KeepRedirect == UNCHANGED <<input_redirect, output_redirect, inbuf, outbuf>>

(***************************************************************************)
(* input_redirect = 0; output_redirect = 0.  The code leaves the text in   *)
(* inbuf and outbuf, and reads a buffer only under its flag and after the  *)
(* strcpy that sets the flag: a buffer whose flag is 0 is dead, and the    *)
(* model keeps "" for it.                                                  *)
(***************************************************************************)
ClearRedirect ==
  /\ input_redirect' = 0
  /\ output_redirect' = 0
  /\ inbuf' = ""
  /\ outbuf' = ""

(***************************************************************************)
(* chdir(path) from directory d.  The directories are "/" and "/a".        *)
(***************************************************************************)
chdir(d, path) == IF d = "/" /\ path = "a" THEN {"/a", d} ELSE {d}

(***************************************************************************)
(* The built-ins, as main runs them on the line: what they print, where    *)
(* they leave the working directory, whether the process ends.  None of    *)
(* them looks at the redirect operators of the line.                       *)
(***************************************************************************)
cmd_help(toks) ==
  /\ out' = Said(out, ShellPid, "help", "")
  /\ pc' = "prompt"
  /\ UNCHANGED <<cwd, shexit>>

cmd_exit(toks) ==
  /\ shexit' = [how |-> "exit", code |-> 0]
  /\ pc' = "exited"
  /\ UNCHANGED <<cwd, out>>

cmd_cd(toks) ==
  LET path == tokens_get_token(toks, 1)
  IN /\ \E d \in chdir(cwd, path) :
          /\ cwd' = d
          /\ out' = IF d # cwd THEN out ELSE Said(out, ShellPid, "cd error", path)
     /\ pc' = "prompt"
     /\ UNCHANGED shexit

cmd_pwd(toks) ==
  /\ \E ok \in BOOLEAN :
       out' = IF ok THEN Said(out, ShellPid, "cwd", cwd)
                    ELSE Said(out, ShellPid, "pwd error", "")
  /\ pc' = "prompt"
  /\ UNCHANGED <<cwd, shexit>>

RunBuiltin(fun, toks) ==
  CASE fun = "cmd_help" -> cmd_help(toks)
    [] fun = "cmd_exit" -> cmd_exit(toks)
    [] fun = "cmd_cd" -> cmd_cd(toks)
    [] fun = "cmd_pwd" -> cmd_pwd(toks)

(***************************************************************************)
(* One turn of main's loop up to its prompt: fgets returned a line, the    *)
(* tokenizer split it, lookup chose.  A built-in runs to its end here.     *)
(* Otherwise piped_exec is entered and runs up to its loop.  A shell that  *)
(* is not in the terminal's foreground group cannot read the terminal.     *)
(***************************************************************************)
main_line(line) ==
  LET tok0 == tokens_get_token(line, 0)
      fundex == lookup(tok0)
  IN /\ pc = "read"
     /\ shell_is_interactive => fg = shell_pgrp
     /\ ClearRedirect
     /\ tokens' = line
     /\ IF fundex >= 0
          THEN /\ RunBuiltin(cmd_table[fundex + 1].fun, line)
               /\ dispatch' = [NoDispatch EXCEPT !.tok0 = tok0, !.fundex = fundex,
                                                 !.ran = cmd_table[fundex + 1].fun]
               /\ UNCHANGED <<args, i, j, prevtok, prevpipe, curpipe, site, pid>>
          ELSE IF tok0 # NULL
          THEN /\ args' = [k \in 0..tokens_get_length(line) |->
                             IF k = 0 THEN tok0 ELSE UNINIT]
               /\ j' = 1
               /\ i' = 1
               /\ prevtok' = tok0
               /\ prevpipe' = <<-1, -1>>
               /\ curpipe' = <<-1, -1>>
               /\ pc' = "scan"
               /\ dispatch' = [NoDispatch EXCEPT !.tok0 = tok0, !.fundex = fundex,
                                                 !.ran = "piped_exec"]
               /\ UNCHANGED <<site, pid, cwd, shexit, out>>
          ELSE /\ pc' = "prompt"
               /\ dispatch' = [NoDispatch EXCEPT !.tok0 = tok0, !.fundex = fundex,
                                                 !.ran = "skip"]
               /\ UNCHANGED <<args, i, j, prevtok, prevpipe, curpipe, site, pid, cwd,
                              shexit, out>>
     /\ UNCHANGED <<constVars, fg, pipebuf, files, last_pid, shell_is_interactive,
                    shell_pgid, shfds, sigttou, jobsig, procs>>

main_fgets(lines) ==
  /\ pc = "read"
  /\ \E line \in lines : main_line(line)

(***************************************************************************)
(* The end of a turn of main's loop: the prompt, tokens_destroy, and back  *)
(* to fgets.  What was observed of the line is forgotten here, and the     *)
(* kernel's pids are named from ShellPid + 1 again.  The redirect flags    *)
(* and buffers stay as piped_exec left them.                               *)
(***************************************************************************)
main_prompt ==
  /\ pc = "prompt"
  /\ pc' = "read"
  /\ tokens' = <<>>
  /\ out' = Prompt(<<>>)
  /\ dispatch' = NoDispatch
  /\ files' = {}
  /\ last_pid' = ShellPid
  /\ UNCHANGED <<constVars, fg, pipebuf, cwd, globVars, args, i, j, prevtok, prevpipe,
                 curpipe, site, pid, shfds, sigttou, jobsig, shexit, procs>>

\* fgets returns NULL at the end of the input: main returns 0
main_eof ==
  /\ pc = "read"
  /\ shell_is_interactive => fg = shell_pgrp
  /\ shexit' = [how |-> "eof", code |-> 0]
  /\ pc' = "exited"
  /\ UNCHANGED <<envVars, globVars, scanVars, shfds, sigttou, jobsig, procs, obsVars>>

(***************************************************************************)
(* The shell reads the terminal while its group is not the foreground      *)
(* group: SIGTTIN, which it leaves at its default, stops it; when its      *)
(* group is orphaned the read fails instead (EIO), fgets returns NULL as   *)
(* it does at the end of the input, and main returns 0.                    *)
(***************************************************************************)
main_sigttin ==
  /\ pc = "read"
  /\ shell_is_interactive
  /\ fg # shell_pgrp
  /\ \/ /\ pc' = "stopped"
        /\ UNCHANGED shexit
     \/ /\ pc' = "exited"
        /\ shexit' = [how |-> "eof", code |-> 0]
  /\ UNCHANGED <<envVars, globVars, scanVars, shfds, sigttou, jobsig, procs, obsVars>>

(***************************************************************************)
(* piped_exec.                                                             *)
(***************************************************************************)
\* the argument vector execv sees: args up to its first NULL
RECURSIVE ArgV(_, _)
ArgV(a, k) ==
  IF k \notin DOMAIN a \/ a[k] = NULL THEN <<>> ELSE <<a[k]>> \o ArgV(a, k + 1)

\* some live process holds an end of pipe k, given the shell's table and the
\* children
InUse(k, tab, pr) ==
  \/ \E fd \in Fds : tab[fd].pipe = k
  \/ \E p \in ChildPids :
       /\ pr[p].st \in LiveStates
       /\ \E fd \in Fds : pr[p].fds[fd].pipe = k

\* a pipe that lost its last end loses what it held
Drained(buf, tab, pr) == [k \in Pipes |-> IF InUse(k, tab, pr) THEN buf[k] ELSE 0]

\* the table of a process that has ended
NoFds == [fd \in Fds |-> Closed]

\* close(prevpipe[PIPE_READ]); close(prevpipe[PIPE_WRITE]) when there is a prevpipe
ClosePrev(tab) ==
  IF prevpipe[PIPE_READ + 1] # -1
    THEN close(close(tab, prevpipe[PIPE_READ + 1]), prevpipe[PIPE_WRITE + 1])
    ELSE tab

(***************************************************************************)
(* piped_exec after a call of program_exec has returned, with `log` what   *)
(* the shell's standard output holds and `pr` the children: at a `|`       *)
(* boundary the rest of the loop body; after the last stage the rest of    *)
(* the function.                                                           *)
(***************************************************************************)
AfterExec(log, pr) ==
  /\ shfds' = ClosePrev(shfds)
  /\ pipebuf' = Drained(pipebuf, ClosePrev(shfds), pr)
  /\ procs' = pr
  /\ out' = log
  /\ IF site = "mid"
       THEN /\ prevpipe' = curpipe
            /\ args' = [args EXCEPT ![0] = tokens_get_token(tokens, i)]
            /\ j' = 1
            /\ ClearRedirect
            /\ prevtok' = tokens_get_token(tokens, i)
            /\ i' = i + 1
            /\ site' = "none"
            /\ pid' = 0
            /\ pc' = "scan"
            /\ UNCHANGED <<tokens, curpipe>>
       ELSE /\ Returned
            /\ pc' = "prompt"
            /\ UNCHANGED <<tokens, input_redirect, output_redirect, inbuf, outbuf>>

\* strcpy(buf, tok) into a buffer of BUFSZ bytes writes past it
Overflows(tok) == strlen(tok) + 1 > BUFSZ

\* the shell killed by a signal
ShellKilled ==
  /\ shexit' = [how |-> "signal", code |-> 0]
  /\ pc' = "exited"
  /\ pipebuf' = Drained(pipebuf, NoFds, procs)

(***************************************************************************)
(* One pass of piped_exec's loop over token i, up to the call of           *)
(* program_exec (at a `|` boundary, after pipe()), or, past the last       *)
(* token, up to the call of program_exec for the last stage.  A strcpy     *)
(* that writes past inbuf or outbuf is undefined: the shell may go on with *)
(* the name it copied, or be killed.                                       *)
(***************************************************************************)
piped_exec_scan ==
  /\ pc = "scan"
  /\ IF i < tokens_get_length(tokens)
       THEN LET curtok == tokens_get_token(tokens, i)
                a1 == [args EXCEPT ![j] = curtok]
                a2 == [a1 EXCEPT ![j - 1] = NULL]
            IN IF strcmp0(prevtok, "|")
                 THEN \/ \* pipe(curpipe) == -1: perror, return to main
                         /\ Returned
                         /\ pc' = "prompt"
                         /\ UNCHANGED <<tokens, shfds, pipebuf, shexit, input_redirect,
                                        output_redirect, inbuf, outbuf, dispatch>>
                      \/ \* pipe(curpipe) == 0
                         /\ Cardinality(FreeFds(shfds)) >= 2
                         /\ \E k \in Pipes :
                              /\ ~PipeInUse(k)
                              /\ \A m \in Pipes : m < k => PipeInUse(m)
                              /\ shfds' = [shfds EXCEPT ![LowestFree(shfds)] = PipeR(k),
                                                        ![SecondFree(shfds)] = PipeW(k)]
                         /\ curpipe' = <<LowestFree(shfds), SecondFree(shfds)>>
                         /\ args' = a2
                         /\ j' = j + 1
                         /\ site' = "mid"
                         /\ pc' = "fork"
                         /\ dispatch' = [dispatch EXCEPT !.pipes = @ + 1]
                         /\ UNCHANGED <<tokens, i, prevtok, prevpipe, pid, pipebuf, shexit,
                                        input_redirect, output_redirect, inbuf, outbuf>>
               ELSE IF strcmp0(prevtok, "<")
                 THEN \/ /\ args' = a2
                         /\ j' = j + 1
                         /\ inbuf' = curtok
                         /\ input_redirect' = 1
                         /\ prevtok' = curtok
                         /\ i' = i + 1
                         /\ UNCHANGED <<tokens, prevpipe, curpipe, site, pid, pc, shfds,
                                        pipebuf, shexit, output_redirect, outbuf, dispatch>>
                      \/ \* strcpy wrote past inbuf
                         /\ Overflows(curtok)
                         /\ ShellKilled
                         /\ UNCHANGED <<scanVars, shfds, input_redirect, output_redirect,
                                        inbuf, outbuf, dispatch>>
               ELSE IF strcmp0(prevtok, ">")
                 THEN \/ /\ args' = a2
                         /\ j' = j + 1
                         /\ outbuf' = curtok
                         /\ output_redirect' = 1
                         /\ prevtok' = curtok
                         /\ i' = i + 1
                         /\ UNCHANGED <<tokens, prevpipe, curpipe, site, pid, pc, shfds,
                                        pipebuf, shexit, input_redirect, inbuf, dispatch>>
                      \/ \* strcpy wrote past outbuf
                         /\ Overflows(curtok)
                         /\ ShellKilled
                         /\ UNCHANGED <<scanVars, shfds, input_redirect, output_redirect,
                                        inbuf, outbuf, dispatch>>
               ELSE /\ args' = a1
                    /\ j' = j + 1
                    /\ prevtok' = curtok
                    /\ i' = i + 1
                    /\ UNCHANGED <<tokens, prevpipe, curpipe, site, pid, pc, shfds, pipebuf,
                                   shexit, input_redirect, output_redirect, inbuf, outbuf,
                                   dispatch>>
       ELSE /\ args' = [args EXCEPT ![j] = NULL]
            /\ site' = "last"
            /\ pc' = "fork"
            /\ UNCHANGED <<tokens, i, j, prevtok, prevpipe, curpipe, pid, shfds, pipebuf,
                           shexit, input_redirect, output_redirect, inbuf, outbuf,
                           dispatch>>
  /\ UNCHANGED <<constVars, fg, cwd, files, last_pid, shell_is_interactive, shell_pgid,
                 sigttou, jobsig, procs, out>>

(***************************************************************************)
(* program_exec, the parent's side.                                        *)
(***************************************************************************)
\* a boundary that would hand the new pipe's read end to the stage before it
PipeIn_newer ==
  IF site = "mid" /\ prevpipe[PIPE_READ + 1] = -1 THEN STDIN_FILENO
  ELSE curpipe[PIPE_READ + 1]

\* the arguments of the running call of program_exec
PipeIn ==
  IF site = "mid"
    THEN (IF prevpipe[PIPE_READ + 1] = -1 THEN STDIN_FILENO ELSE prevpipe[PIPE_READ + 1])
    ELSE curpipe[PIPE_READ + 1]
PipeOut == IF site = "mid" THEN curpipe[PIPE_WRITE + 1] ELSE STDOUT_FILENO

\* the pids fork can hand out: of no process, of no group, not the foreground's
FreePids == {p \in ChildPids : ~Exists(p) /\ p \notin Pgrps /\ p # fg}
\* the kernel hands out pids upwards from the last one, and starts over
NextPid ==
  LET above == {p \in FreePids : p > last_pid}
      from == IF above # {} THEN above ELSE FreePids
  IN CHOOSE p \in from : \A q \in from : p <= q

\* the child as fork makes it: a copy of the shell
Forked ==
  [NoProc EXCEPT !.st = "forked", !.pgid = shell_pgrp, !.fds = shfds,
                 !.argv = ArgV(args, 0), !.pipein = PipeIn, !.pipeout = PipeOut,
                 !.inred = input_redirect, !.outred = output_redirect,
                 !.inb = inbuf, !.outb = outbuf, !.sig = jobsig]

\* pid = fork(); the branch pid < 0 prints and returns
program_exec_fork ==
  /\ pc = "fork"
  /\ \/ /\ AfterExec(Said(out, ShellPid, "fork failed", ""), procs)
        /\ UNCHANGED <<sigttou, shexit, fg, last_pid, dispatch>>
     \/ /\ FreePids # {}
        /\ procs' = [procs EXCEPT ![NextPid] = Forked]
        /\ pid' = NextPid
        /\ last_pid' = NextPid
        /\ dispatch' = [dispatch EXCEPT !.first = IF @ = 0 THEN NextPid ELSE @]
        /\ pc' = "setpgid"
        /\ UNCHANGED <<tokens, args, i, j, prevtok, prevpipe, curpipe, site, shfds,
                       sigttou, shexit, fg, pipebuf, input_redirect, output_redirect,
                       inbuf, outbuf, out>>
  /\ UNCHANGED <<constVars, cwd, files, shell_is_interactive, shell_pgid, jobsig>>

\* setpgid(p, g) by the parent: refused once the child has executed a program
setpgid(pr, p, g) ==
  IF pr[p].st # "none" /\ ~pr[p].execed THEN [pr EXCEPT ![p].pgid = g] ELSE pr

\* a parent that would hand over the terminal with SIGTTOU at its default
program_exec_setpgid_default ==
  /\ pc = "setpgid"
  /\ procs' = setpgid(procs, pid, pid)
  /\ pc' = "tcsetpgrp"
  /\ UNCHANGED <<envVars, globVars, scanVars, shfds, sigttou, jobsig, shexit, obsVars>>

\* signal(SIGTTOU, SIG_IGN); setpgid(pid, pid)
program_exec_setpgid ==
  /\ pc = "setpgid"
  /\ sigttou' = "IGN"
  /\ procs' = setpgid(procs, pid, pid)
  /\ pc' = "tcsetpgrp"
  /\ UNCHANGED <<envVars, globVars, scanVars, shfds, jobsig, shexit, obsVars>>

\* tcsetpgrp(STDIN_FILENO, pid)
program_exec_tcsetpgrp ==
  /\ pc = "tcsetpgrp"
  /\ \E r \in tcsetpgrp(pid) : fg' = r.fg
  /\ pc' = "wait"
  /\ UNCHANGED <<constVars, pipebuf, cwd, files, last_pid, globVars, scanVars,
                 shfds, sigttou, jobsig, shexit, procs, obsVars>>

\* a wait that would return at once when no child has ended yet
wait_nohang(pr) ==
  {pr} \cup {[pr EXCEPT ![z] = NoProc] : z \in {q \in ChildPids : pr[q].st = "zombie"}}

(***************************************************************************)
(* wait(&status) with the children pr: it blocks until a child has ended,  *)
(* and that child is gone once it has returned; the children it can leave. *)
(* Where the kernel reaps the children itself (SIGCHLD ignored by the      *)
(* starter of the shell) it returns -1 at that moment; perror writes to    *)
(* standard error and the code goes on the same way.                       *)
(***************************************************************************)
wait(pr) == {[pr EXCEPT ![z] = NoProc] : z \in {q \in ChildPids : pr[q].st = "zombie"}}

(***************************************************************************)
(* wait(&status) returns once a child has ended.  Then the rest of the     *)
(* parent's branch: the status line on standard output, tcsetpgrp back to  *)
(* shell_pgid, SIGTTOU to its default.                                     *)
(***************************************************************************)
program_exec_wait ==
  /\ pc = "wait"
  /\ \E w \in wait(procs) :
       \E r \in tcsetpgrp(shell_pgid) :
         /\ fg' = r.fg
         /\ AfterExec(Said(out, ShellPid, "status", ""), w)
  /\ sigttou' = "DFL"
  /\ UNCHANGED <<constVars, cwd, files, last_pid, shell_is_interactive, shell_pgid,
                 jobsig, shexit, dispatch>>

(***************************************************************************)
(* exec_with_pathres.                                                      *)
(***************************************************************************)
\* execv(path, args): the image is replaced ("ok"), or the error
execv(fs, path) ==
  IF path = NULL THEN "EFAULT"
  ELSE IF path \in fs.exe THEN "ok"
  ELSE IF path \in fs.noacc THEN "EACCES"
  ELSE "ENOENT"

\* the candidate strcpy and strcat build in pathbuf
Candidate(dir, path) == dir \o "/" \o path

\* pathbuf has strlen(envpath) + 1 bytes; the candidate and its terminator
\* do not fit
PathbufOverflows(dir, path, envpath) ==
  strlen(dir) + 1 + strlen(path) + 1 > strlen(envpath) + 1

(***************************************************************************)
(* The loop over the PATH entries, with `rest` what strtok has left of     *)
(* envbuf and `tried` the paths handed to execv so far.  Writing past      *)
(* pathbuf is undefined: the process may go on as if the buffer were long  *)
(* enough, or be killed.                                                   *)
(***************************************************************************)
RECURSIVE PathWalk(_, _, _, _, _)
PathWalk(fs, envpath, rest, path, tried) ==
  LET tk == strtok(rest)
      cand == Candidate(tk.tok, path)
      tr == Append(tried, cand)
      r == execv(fs, cand)
  IN IF tk.tok = NULL
       THEN {[tried |-> tried, res |-> "notfound"]}
       ELSE (IF PathbufOverflows(tk.tok, path, envpath)
               THEN {[tried |-> tried, res |-> "killed"]}
               ELSE {})
            \cup (IF r = "ok" THEN {[tried |-> tr, res |-> "ok"]}
                  ELSE IF r = "ENOENT" THEN PathWalk(fs, envpath, tk.rest, path, tr)
                  ELSE {[tried |-> tr, res |-> "notfound"]})

(***************************************************************************)
(* exec_with_pathres(args) with argv[0] = path, PATH = envpath and the     *)
(* files fs: the ways it can end, each with the paths it handed to execv   *)
(* in order.                                                               *)
(*   "ok"        an execv succeeded                                        *)
(*   "notfound"  command_not_found(path); exit(EXIT_FAILURE)               *)
(*   "killed"    the process was killed by a signal                        *)
(* strlen(NULL), when PATH is unset, kills the process before any execv.   *)
(***************************************************************************)
exec_with_pathres(fs, envpath, path) ==
  IF envpath = NULL
    THEN {[tried |-> <<>>, res |-> "killed"]}
    ELSE LET r == execv(fs, path)
         IN IF r = "ok" THEN {[tried |-> <<path>>, res |-> "ok"]}
            ELSE IF r = "ENOENT" THEN PathWalk(fs, envpath, envpath, path, <<path>>)
            ELSE {[tried |-> <<path>>, res |-> "notfound"]}

(***************************************************************************)
(* The children.                                                           *)
(***************************************************************************)
ShTab == IF ShellAlive THEN shfds ELSE NoFds

\* what an executed program does: write and exit, or read its standard
\* input to end-of-file, then write and exit
ProgKinds == {"writer", "filter"}

\* argv[0] as the child was forked with it
Path0(c) == IF Len(c.argv) = 0 THEN NULL ELSE c.argv[1]

\* child c ended with `status`
Ended(c, status) == [c EXCEPT !.st = "zombie", !.status = status, !.fds = NoFds]

\* child p, become c, has written to its standard output as table `tab` has
\* it, with `fl` what was done to named files before
Writes(p, c, tab, what, text, fl) ==
  LET o == tab[STDOUT_FILENO]
      buf == IF o.kind = "pipe_w" THEN [pipebuf EXCEPT ![o.pipe] = 1] ELSE pipebuf
      pr == [procs EXCEPT ![p] = c]
  IN /\ procs' = pr
     /\ pipebuf' = Drained(buf, ShTab, pr)
     /\ out' = IF o.kind = "stdout" THEN Said(out, p, what, text) ELSE out
     /\ files' = IF o.kind = "file_w"
                   THEN fl \cup {[name |-> o.name, who |-> p, what |-> what]}
                   ELSE fl

\* child p, become c, without a word on its standard output
Silent(p, c) ==
  /\ procs' = [procs EXCEPT ![p] = c]
  /\ pipebuf' = Drained(pipebuf, ShTab, [procs EXCEPT ![p] = c])
  /\ UNCHANGED out

(***************************************************************************)
(* program_exec, the child's side: the signals back to their defaults, the *)
(* pipe ends onto 0 and 1 (their originals stay open), the redirect files  *)
(* onto 0 and 1 whatever 0 and 1 were, and exec_with_pathres.              *)
(***************************************************************************)
program_exec_child(p) ==
  /\ procs[p].st = "forked"
  /\ LET c == [procs[p] EXCEPT !.sig = "DFL"]
         t0 == c.fds
         t1 == IF c.pipein # -1
                 THEN dup2(dup2(t0, c.pipein, STDIN_FILENO), c.pipeout, STDOUT_FILENO)
                 ELSE t0
         dupfail == c.pipein # -1 /\ ~(dup2_ok(t0, c.pipein) /\ dup2_ok(t0, c.pipeout))
         t2 == IF c.inred = 1 THEN [t1 EXCEPT ![STDIN_FILENO] = FileR(c.inb)] ELSE t1
         t3 == IF c.outred = 1 THEN [t2 EXCEPT ![STDOUT_FILENO] = FileW(c.outb)] ELSE t2
         canopen == FreeFds(t1) # {}
         created == IF c.outred = 1
                      THEN files \cup {[name |-> c.outb, who |-> p, what |-> "creat"]}
                      ELSE files
         wired == [dispatch EXCEPT !.wired = Append(@, [in |-> t3[STDIN_FILENO],
                                                        out |-> t3[STDOUT_FILENO]])]
     IN IF dupfail
          THEN Silent(p, Ended(c, "exit 1")) /\ UNCHANGED <<files, dispatch>>
          ELSE \E in_ok \in (IF c.inred = 0 THEN {TRUE}
                             ELSE IF canopen THEN BOOLEAN ELSE {FALSE}) :
               \E out_ok \in (IF ~in_ok \/ c.outred = 0 THEN {TRUE}
                              ELSE IF canopen THEN BOOLEAN ELSE {FALSE}) :
                 IF ~in_ok \/ ~out_ok
                   THEN \* "Cannot open file" / "Cannot create file", exit(EXIT_FAILURE)
                        Silent(p, Ended(c, "exit 1")) /\ UNCHANGED <<files, dispatch>>
                   ELSE \E e \in exec_with_pathres(fsys, envPATH, Path0(c)) :
                          LET d == [c EXCEPT !.fds = t3, !.tried = e.tried,
                                             !.resolved = e.res]
                          IN CASE e.res = "ok" ->
                                    /\ \E kind \in ProgKinds :
                                         Silent(p, [d EXCEPT !.st = "run", !.execed = TRUE,
                                                             !.kind = kind])
                                    /\ files' = created
                                    /\ dispatch' = wired
                               [] e.res = "notfound" ->
                                    /\ Writes(p, [Ended(d, "exit 1") EXCEPT
                                                    !.said = Path0(c)],
                                              t3, "command not found", Path0(c), created)
                                    /\ dispatch' = wired
                               [] OTHER ->
                                    /\ Silent(p, Ended(d, "killed"))
                                    /\ files' = created
                                    /\ dispatch' = wired
  /\ UNCHANGED <<constVars, fg, cwd, last_pid, globVars, scanVars, shVars>>

(***************************************************************************)
(* The executed program.  A read of the terminal by a process outside the  *)
(* foreground group stops it (SIGTTIN); a read of a pipe returns           *)
(* end-of-file only when the pipe is empty and no process holds its write  *)
(* end, and blocks while it is empty and one does.                         *)
(***************************************************************************)
AtEof(p) ==
  LET o == procs[p].fds[STDIN_FILENO]
  IN CASE o.kind = "pipe_r" -> pipebuf[o.pipe] = 0 /\ ~WriterOpen(o.pipe)
       [] o.kind = "stdin" -> ~stdin_tty \/ procs[p].pgid = fg
       [] OTHER -> TRUE

Blocked(p) ==
  LET o == procs[p].fds[STDIN_FILENO]
  IN /\ procs[p].st = "run"
     /\ procs[p].kind = "filter"
     /\ o.kind = "pipe_r"
     /\ pipebuf[o.pipe] = 0
     /\ WriterOpen(o.pipe)

program_run(p) ==
  /\ procs[p].st = "run"
  /\ LET c == procs[p]
         o == c.fds[STDIN_FILENO]
     IN IF c.kind = "writer" \/ AtEof(p)
          THEN Writes(p, Ended(c, "exit 0"), c.fds, "output", "", files)
          ELSE IF o.kind = "stdin"
          THEN /\ procs' = [procs EXCEPT ![p].st = "stopped"]
               /\ UNCHANGED <<pipebuf, out, files>>
          ELSE /\ o.kind = "pipe_r"
               /\ pipebuf[o.pipe] > 0
               /\ pipebuf' = [pipebuf EXCEPT ![o.pipe] = 0]
               /\ UNCHANGED <<procs, out, files>>
  /\ UNCHANGED <<constVars, fg, cwd, last_pid, globVars, scanVars, shVars, dispatch>>

(***************************************************************************)
(* A signal from the keyboard: SIGINT or SIGQUIT ("kill"), SIGTSTP         *)
(* ("stop").  The terminal sends it to every process of its foreground     *)
(* group; a process that ignores it goes on, a process that has it at its  *)
(* default ends or stops.  The keyboard acts once init_shell has run.      *)
(***************************************************************************)
Signalled(pr, how) ==
  [p \in ChildPids |->
     IF pr[p].st \in {"forked", "run"} /\ pr[p].pgid = fg /\ pr[p].sig = "DFL"
       THEN (IF how = "kill" THEN Ended(pr[p], "interrupted")
                             ELSE [pr[p] EXCEPT !.st = "stopped", !.status = "suspended"])
       ELSE pr[p]]

keyboard_signal ==
  /\ shell_is_interactive
  /\ ShellAlive
  /\ pc # "suspended"
  /\ \E how \in {"kill", "stop"} :
       LET pr == Signalled(procs, how)
           shell_hit == shell_pgrp = fg /\ jobsig = "DFL"
       IN /\ pr # procs \/ shell_hit
          /\ procs' = pr
          /\ IF shell_hit /\ how = "kill"
               THEN /\ shexit' = [how |-> "keyboard", code |-> 0]
                    /\ pc' = "exited"
                    /\ pipebuf' = Drained(pipebuf, NoFds, pr)
               ELSE /\ pc' = (IF shell_hit THEN "suspended" ELSE pc)
                    /\ pipebuf' = Drained(pipebuf, shfds, pr)
                    /\ UNCHANGED shexit
  /\ UNCHANGED <<constVars, fg, cwd, files, last_pid, globVars, scanVars, shfds, sigttou,
                 jobsig, obsVars>>

(***************************************************************************)
(* One step of the shell or of one of its children, with `lines` the lines *)
(* the input can hold.                                                     *)
(***************************************************************************)
Step(lines) ==
  \/ init_shell
  \/ main_fgets(lines)
  \/ main_prompt
  \/ main_eof
  \/ main_sigttin
  \/ piped_exec_scan
  \/ program_exec_fork
  \/ program_exec_setpgid
  \/ program_exec_tcsetpgrp
  \/ program_exec_wait
  \/ \E p \in ChildPids : program_exec_child(p)
  \/ \E p \in ChildPids : program_run(p)
  \/ keyboard_signal

(***************************************************************************)
(* The shell session: lines of at most MaxTokens tokens, made of a command *)
(* name, the operators and the names of built-ins, and the lines with a    *)
(* token too long for the redirect buffers.  PATH has two directories and  *)
(* the command is in the first.                                            *)
(***************************************************************************)
SessionPaths == {"/bin:/sbin"}
SessionFiles == {[exe |-> {"/bin/a"}, noacc |-> {}]}

\* tokens a line may start with
FirstTokens == {"a", "|", "?", "exit", "pwd"}
\* tokens a line may continue with
TailTokens == {"a", "|", "<", ">"}

LongLines == {<<"a", "<", LongTok>>, <<"a", ">", LongTok>>, <<LongTok>>}

Lines == LinesOver(FirstTokens, TailTokens, MaxTokens) \cup LongLines

Init == InitWith(SessionPaths, SessionFiles)

Next == Step(Lines)

Spec == Init /\ [][Next]_vars

(***************************************************************************)
(* Path resolution: the one-word line `a`, every PATH value of at most     *)
(* MaxPathLen characters made of `d` and `:` (and PATH unset), and every   *)
(* way the files a, d/a and dd/a can be executable, forbidden or absent.   *)
(***************************************************************************)
RECURSIVE Strings(_, _)
Strings(chars, n) ==
  IF n = 0 THEN {""}
  ELSE LET shorter == Strings(chars, n - 1)
       IN shorter \cup {t \o x : t \in {u \in shorter : Len(u) = n - 1}, x \in chars}

PathValues == {NULL} \cup (Strings({"d", ":"}, MaxPathLen) \ {""})
PathCandidates == {"a", "d/a", "dd/a"}
PathFiles ==
  {[exe |-> e, noacc |-> n] : e \in SUBSET PathCandidates, n \in SUBSET PathCandidates}
PathLines == LinesOver({"a"}, {}, 1)

InitPath == InitWith(PathValues, {f \in PathFiles : f.exe \cap f.noacc = {}})

NextPath == Step(PathLines)

SpecPath == InitPath /\ [][NextPath]_vars

(***************************************************************************)
(* Lookup: lines of at most MaxLookupTokens tokens that start with the     *)
(* name of a built-in, with a beginning or an extension of one, with       *)
(* `help`, or with another word.                                           *)
(***************************************************************************)
LookupTokens ==
  {"?", "exit", "cd", "pwd", "help", "a", "p", "pw", "pwdx", "c", "cdd", "ex", "exit0",
   "??", "PWD", "h"}
LookupLines == LinesOver(LookupTokens, {"a"}, MaxLookupTokens)

NextLookup == Step(LookupLines)

SpecLookup == Init /\ [][NextLookup]_vars

(***************************************************************************)
(* Properties.                                                             *)
(***************************************************************************)
Operators == {"|", "<", ">"}

\* a line in which every operator stands between two words
WellFormed(toks) ==
  /\ Len(toks) >= 1
  /\ toks[1] \notin Operators
  /\ toks[Len(toks)] \notin Operators
  /\ \A k \in 2..Len(toks) : toks[k] \in Operators => toks[k - 1] \notin Operators

\* a line without a redirect operator
NonRedirecting(toks) == \A k \in 1..Len(toks) : toks[k] \notin {"<", ">"}

\* a line without a token too long for the redirect buffers
ShortTokens(toks) == \A k \in 1..Len(toks) : ~Overflows(toks[k])

\* no fork of the line has failed
AllForked == \A k \in DOMAIN out : out[k].what # "fork failed"

\* the shell waits for a child, there is none to reap, and every child that
\* lives is blocked in a read of a pipe
Hung ==
  /\ pc = "wait"
  /\ \A p \in ChildPids : procs[p].st # "zombie"
  /\ \E p \in ChildPids : Alive(p)
  /\ \A p \in ChildPids : Alive(p) => Blocked(p)

\* C1: a pipeline whose programs exit once they have read end-of-file on
\* their standard input never hangs: on a line in which every operator
\* stands between two words and every stage was forked, in a session without
\* a terminal (so that no signal of the keyboard ends a stage), the shell is
\* never left waiting for a child while every living child is blocked in a
\* read that cannot return.
C1_PipelineCompletes == (~shell_is_interactive /\ WellFormed(tokens) /\ AllForked) => ~Hung

\* C2: in non-interactive mode, for a pipeline of non-redirecting stages that
\* were all forked, everything on the shell's standard output was written by
\* a stage; the shell itself writes nothing there.
C2_OnlyStageOutput ==
  (/\ ~shell_is_interactive
   /\ dispatch.ran = "piped_exec"
   /\ WellFormed(tokens)
   /\ ShortTokens(tokens)
   /\ NonRedirecting(tokens)
   /\ AllForked)
  => \A k \in DOMAIN out : out[k].who \in ChildPids

\* C3: in an interactive session, whenever the shell is at reading an input
\* line the terminal's foreground group is the shell's own group, and another
\* group holds the foreground only while the shell waits for a child.
C3_ForegroundAtRead ==
  shell_is_interactive =>
    /\ pc = "read" => fg = shell_pgrp
    /\ fg # shell_pgrp => pc = "wait"

\* C4: every stage of a pipeline is in the process group whose id is the pid
\* of the pipeline's first stage, and that group is the one given the
\* terminal: when a shell that leads its own group has handed over the
\* terminal and waits for a later stage of a line in which every operator
\* stands between two words, that stage is in the first stage's group and
\* the foreground group is that group.
C4_OneGroupPerPipeline ==
  \A p \in ChildPids :
    (/\ shell_is_interactive
     /\ shell_pgrp = shell_pgid
     /\ WellFormed(tokens)
     /\ pc = "wait"
     /\ Alive(p)
     /\ dispatch.first # 0
     /\ p # dispatch.first)
    => /\ procs[p].pgid = dispatch.first
       /\ fg = dispatch.first

\* the PATH entries strtok finds in what is left of PATH
RECURSIVE Entries(_)
Entries(rest) ==
  IF strtok(rest).tok = NULL THEN <<>> ELSE <<strtok(rest).tok>> \o Entries(strtok(rest).rest)

\* the candidates for the entries from the k-th on, up to and with the first
\* that execv does not answer with ENOENT
RECURSIVE UpToFirstHit(_, _, _, _)
UpToFirstHit(fs, dirs, path, k) ==
  IF k > Len(dirs) THEN <<>>
  ELSE IF execv(fs, Candidate(dirs[k], path)) # "ENOENT"
    THEN <<Candidate(dirs[k], path)>>
    ELSE <<Candidate(dirs[k], path)>> \o UpToFirstHit(fs, dirs, path, k + 1)

\* the attempts the resolution order asks for
Attempts(fs, envpath, path) ==
  IF execv(fs, path) # "ENOENT" THEN <<path>>
  ELSE <<path>> \o UpToFirstHit(fs, IF envpath = NULL THEN <<>> ELSE Entries(envpath),
                                path, 1)

\* C5: the attempts exec_with_pathres has made when it has ended are
\* argv[0] as given and then, only if that failed with ENOENT, dir/argv[0]
\* for the PATH entries from left to right, up to and with the first attempt
\* that succeeds or fails with another error.
C5_ResolutionOrder ==
  \A p \in ChildPids :
    procs[p].resolved # "none" =>
      procs[p].tried = Attempts(fsys, envPATH, Path0(procs[p]))

\* C6: exec_with_pathres ends in one of two ways: an execv succeeded, or it
\* reported the name as typed as not found and the child exited with a
\* non-zero status; and the shell is never the process it ends.
C6_ResolverEnds ==
  /\ shexit.how \in {"none", "exit", "eof"}
  /\ \A p \in ChildPids :
       procs[p].resolved # "none" =>
         \/ procs[p].resolved = "ok" /\ procs[p].execed
         \/ /\ procs[p].resolved = "notfound"
            /\ procs[p].st = "zombie"
            /\ procs[p].status = "exit 1"
            /\ procs[p].said = Path0(procs[p])

\* C7: the shell process ends only through the exit built-in or the end of
\* its input, with status 0.
C7_ShellEndsOnlyByExitOrEof ==
  /\ shexit.how \in {"none", "exit", "eof"}
  /\ shexit.code = 0

\* C8: on a line in which every operator stands between two words, a stage
\* whose standard input is connected to a pipe runs its program with that
\* pipe as standard input, and a stage whose standard output is connected to
\* a pipe runs it with that pipe as standard output; a named file never
\* takes the pipe's place.
C8_RedirectPlacement ==
  \A p \in ChildPids :
    (WellFormed(tokens) /\ procs[p].st = "run") =>
      /\ procs[p].pipein \notin {-1, STDIN_FILENO}
           => procs[p].fds[STDIN_FILENO].kind = "pipe_r"
      /\ (procs[p].pipein # -1 /\ procs[p].pipeout # STDOUT_FILENO)
           => procs[p].fds[STDOUT_FILENO].kind = "pipe_w"

\* C9: after the line `pwd > f` the working directory has been written to
\* the file f and not to the shell's standard output.
C9_BuiltinRedirect ==
  (/\ pc = "prompt"
   /\ Len(tokens) = 3
   /\ tokens[1] = "pwd"
   /\ tokens[2] = ">"
   /\ tokens[3] \notin Operators)
  => /\ \E f \in files : f.name = tokens[3] /\ f.what = "cwd"
     /\ \A k \in DOMAIN out : out[k].what # "cwd"

\* what the shell itself writes to its standard output outside the built-ins
LaunchOutput == {"prompt", "status", "fork failed"}

\* main did with the line what `handler` says for its first token: the
\* handler's built-in ran when there is one, nothing when the line is empty,
\* and otherwise piped_exec and no built-in
DispatchedBy(handler) ==
  dispatch.ran # "none" =>
    /\ dispatch.tok0 = tokens_get_token(tokens, 0)
    /\ dispatch.ran = (IF dispatch.tok0 = NULL THEN "skip"
                       ELSE IF dispatch.tok0 \in DOMAIN handler THEN handler[dispatch.tok0]
                       ELSE "piped_exec")
    /\ dispatch.fundex >= 0 <=> dispatch.tok0 \in DOMAIN handler
    /\ dispatch.ran = "piped_exec" =>
         \A k \in DOMAIN out : out[k].who = ShellPid => out[k].what \in LaunchOutput

RegisteredInCode ==
  [n \in {"?", "exit", "cd", "pwd"} |->
     CASE n = "?" -> "cmd_help" [] n = "exit" -> "cmd_exit"
       [] n = "cd" -> "cmd_cd" [] n = "pwd" -> "cmd_pwd"]

RegisteredInSpec ==
  [n \in {"?", "help", "exit", "cd", "pwd"} |->
     CASE n \in {"?", "help"} -> "cmd_help" [] n = "exit" -> "cmd_exit"
       [] n = "cd" -> "cmd_cd" [] n = "pwd" -> "cmd_pwd"]

\* C10 (as the code has it): lookup returns a handler exactly when the first
\* token is string-equal to one of the names `?`, `exit`, `cd`, `pwd`; for
\* every other first token, `help` among them, the line is handed to
\* piped_exec and no built-in runs; a missing first token is not found.
C10_LookupExact == DispatchedBy(RegisteredInCode)

\* C10 (as stated): the same with `help` among the registered names.
C10_LookupWithHelp == DispatchedBy(RegisteredInSpec)

\* C10, its case: the line `help` went to piped_exec and its child reported
\* that there is no such command.
C10_HelpNotBuiltin ==
  /\ pc = "prompt"
  /\ dispatch.tok0 = "help"
  /\ dispatch.ran = "piped_exec"
  /\ \E k \in DOMAIN out : out[k].what = "command not found" /\ out[k].text = "help"

(***************************************************************************)
(* The session of well-formed lines: the lines of Spec that start with a   *)
(* command name and in which every operator stands between two words, and  *)
(* the empty line.                                                         *)
(***************************************************************************)
WellFormedLines ==
  {l \in LinesOver({"a"}, TailTokens, MaxTokens) : l = <<>> \/ WellFormed(l)}

NextWellFormed == Step(WellFormedLines)

SpecWellFormed == Init /\ [][NextWellFormed]_vars

\* C11: when a stage runs its program with a pipe as standard input, on a
\* line without redirects in which every operator stands between two words
\* and every stage was forked, the write end of that pipe is open neither in the shell nor in the stage
\* itself: only the stage before it may hold it.
C11_WriteEndClosed ==
  \A p \in ChildPids :
    (/\ WellFormed(tokens)
     /\ NonRedirecting(tokens)
     /\ AllForked
     /\ procs[p].st = "run"
     /\ procs[p].fds[STDIN_FILENO].kind = "pipe_r")
    => \A fd \in Fds :
         /\ shfds[fd] # PipeW(procs[p].fds[STDIN_FILENO].pipe)
         /\ procs[p].fds[fd] # PipeW(procs[p].fds[STDIN_FILENO].pipe)

\* C12: whenever piped_exec has returned from a line in which every operator
\* stands between two words, after all its stages or after a pipe() or a
\* fork() that failed, the shell's descriptors are those it was started with:
\* every pipe end piped_exec made has been closed.
C12_NoDescriptorLeak ==
  (pc = "prompt" /\ dispatch.ran = "piped_exec" /\ WellFormed(tokens)) => shfds = InitFds

\* the children that have been forked and not been reaped
Unreaped == {p \in ChildPids : Exists(p)}

\* C13: the stages are launched one after the other: a stage is forked at a
\* `|` boundary when the token after the `|` has been scanned (or after the
\* last token), the shell has at most one child that it has not reaped, this
\* child is the one the running program_exec forked, and while it is there
\* the shell is between that fork and the return of its wait, so that it
\* neither scans a token nor forks again before it has reaped it.
C13_SequentialLaunch ==
  /\ Cardinality(Unreaped) <= 1
  /\ \A p \in Unreaped : p = pid /\ pc \in {"setpgid", "tcsetpgrp", "wait"}
  /\ (pc = "fork" /\ site = "mid") =>
       /\ i >= 1
       /\ tokens_get_token(tokens, i - 1) = "|"
       /\ tokens_get_token(tokens, i) # NULL
  /\ (pc = "fork" /\ site = "last") => i = tokens_get_length(tokens)

\* C13, its case: the shell waits for the second stage of a pipeline, and
\* the first stage is gone.
C13_SecondStageAfterFirstReaped ==
  /\ pc = "wait"
  /\ WellFormed(tokens)
  /\ dispatch.first # 0
  /\ pid # dispatch.first
  /\ Unreaped = {pid}
  /\ Len(dispatch.wired) = 2

(***************************************************************************)
(* The stage the running program_exec launches, as the tokens have it: at  *)
(* a `|` boundary the tokens before that `|`, after the loop the tokens up *)
(* to the end of the line, in both cases back to the `|` before them.      *)
(***************************************************************************)
\* the position (from 1) of the stage's last token
StageEnd == IF site = "mid" THEN i - 1 ELSE Len(tokens)

\* the position (from 1) of the first token of the stage that has position e
RECURSIVE StageBegin(_, _)
StageBegin(toks, e) ==
  IF e <= 1 THEN 1 ELSE IF toks[e - 1] = "|" THEN e ELSE StageBegin(toks, e - 1)

StageTokens == SubSeq(tokens, StageBegin(tokens, StageEnd), StageEnd)

\* the redirect the tokens `seg` of a stage ask for with operator op: the
\* token after the last op among them
Target(seg, op) ==
  LET at == {k \in 1..(Len(seg) - 1) : seg[k] = op}
  IN IF at = {} THEN [flag |-> 0, name |-> ""]
     ELSE [flag |-> 1, name |-> seg[(CHOOSE k \in at : \A m \in at : m <= k) + 1]]

\* C14: the redirects a stage is launched with are those of its own tokens on
\* the current line: on a line in which every operator stands between two
\* words and no token is too long for the buffers, the child is forked with
\* the input (output) flag set exactly when a `<` (`>`) is among the tokens
\* of its stage, with the token after the last of them as file name, and
\* when it runs its program a named file is its standard input (output)
\* exactly in that case; a redirect of an earlier stage or of an earlier
\* line is not applied.
C14_RedirectOwnStage ==
  \A p \in Unreaped :
    (WellFormed(tokens) /\ ShortTokens(tokens)) =>
      LET c == procs[p]
          in == Target(StageTokens, "<")
          ou == Target(StageTokens, ">")
      IN /\ c.inred = in.flag
         /\ c.inb = in.name
         /\ c.outred = ou.flag
         /\ c.outb = ou.name
         /\ c.st = "run" =>
              /\ c.fds[STDIN_FILENO].kind = "file_r" <=> in.flag = 1
              /\ in.flag = 1 => c.fds[STDIN_FILENO].name = in.name
              /\ c.fds[STDOUT_FILENO].kind = "file_w" <=> ou.flag = 1
              /\ ou.flag = 1 => c.fds[STDOUT_FILENO].name = ou.name

\* C14, its case: a stage runs its program without a redirect, on the pipe,
\* after an earlier stage of the line was launched with one.
C14_LaterStageWithoutRedirect ==
  /\ pc = "wait"
  /\ WellFormed(tokens)
  /\ procs[pid].st = "run"
  /\ \E k \in 1..(StageBegin(tokens, StageEnd) - 1) : tokens[k] \in {"<", ">"}
  /\ procs[pid].inred = 0
  /\ procs[pid].outred = 0
  /\ procs[pid].fds[STDIN_FILENO].kind = "pipe_r"

\* C15: the shell ignores SIGTTOU exactly from before it hands the terminal
\* to the child until it has waited for the child and tried to take the
\* terminal back: the disposition is `ignore` when the shell is about to
\* call tcsetpgrp for the child and while it waits, it is `default` in every
\* other state, so after every return of program_exec, whichever of fork,
\* setpgid, tcsetpgrp failed; and it is never `default` while the group made
\* for a living child is the terminal's foreground group.
C15_ScopedSigttou ==
  /\ sigttou \in {"IGN", "DFL"}
  /\ sigttou = "IGN" <=> pc \in {"tcsetpgrp", "wait"}
  /\ sigttou = "DFL" =>
       \A p \in ChildPids :
         Alive(p) => ~(procs[p].pgid = fg /\ procs[p].pgid # shell_pgrp)

\* C15, its case: the shell waits, with SIGTTOU ignored, for a child whose
\* own group holds the terminal.
C15_IgnoredWhileChildForeground ==
  /\ pc = "wait"
  /\ sigttou = "IGN"
  /\ Alive(pid)
  /\ procs[pid].pgid = pid
  /\ fg = pid
  /\ fg # shell_pgrp

\* C16: in an interactive session, once init_shell has run, the shell ignores
\* the signals of the keyboard in every state, no such signal has ended or
\* stopped it, and every child that has executed its program has them at
\* their defaults.
C16_KeyboardSignals ==
  shell_is_interactive =>
    /\ jobsig = "IGN"
    /\ shexit.how # "keyboard"
    /\ pc # "suspended"
    /\ \A p \in ChildPids : procs[p].execed => procs[p].sig = "DFL"

\* C16, its case: a signal of the keyboard has ended the child the shell
\* waits for, and the shell lives.
C16_ChildInterrupted ==
  /\ shell_is_interactive
  /\ pc = "wait"
  /\ ShellAlive
  /\ procs[pid].st = "zombie"
  /\ procs[pid].status = "interrupted"

\* the tokens of a stage, from the k-th on, that are neither a redirect
\* operator nor the file name after one
RECURSIVE Words(_, _)
Words(seg, k) ==
  IF k > Len(seg) THEN <<>>
  ELSE IF seg[k] \in {"<", ">"} THEN Words(seg, k + 2)
  ELSE <<seg[k]>> \o Words(seg, k + 1)

\* C17: on a line in which every operator stands between two words and no
\* token is too long for the buffers, the argument vector a stage is
\* launched with is made, in order, of exactly the tokens of the stage that
\* are neither an operator nor the file name after a redirect operator, the
\* tokens after a redirect's file name among them.
C17_ArgumentVector ==
  \A p \in Unreaped :
    (WellFormed(tokens) /\ ShortTokens(tokens)) =>
      procs[p].argv = Words(StageTokens, 1)

\* the number of stages of a line
NStages(toks) == 1 + Cardinality({k \in 1..Len(toks) : toks[k] = "|"})

\* the number of stages the shell has waited for
Waited == Cardinality({k \in DOMAIN out : out[k].who = ShellPid /\ out[k].what = "status"})

\* C18: for a line of n stages without redirects, in which every operator
\* stands between two words and every stage was forked, piped_exec makes at
\* most n - 1 pipes, and exactly n - 1 when it has launched all n stages;
\* the first stage calls exec_with_pathres with the shell's standard input,
\* the n-th with the shell's standard output, every stage before the n-th with
\* the write end of a pipe as standard output, and every stage after the
\* first with the read end of the very pipe the stage before it had as
\* standard output, which is not the pipe it writes to itself.
C18_PipeWiring ==
  (/\ dispatch.ran = "piped_exec"
   /\ WellFormed(tokens)
   /\ NonRedirecting(tokens)
   /\ AllForked)
  => LET w == dispatch.wired
         n == NStages(tokens)
     IN /\ dispatch.pipes <= n - 1
        /\ Len(w) <= n
        /\ Len(w) <= dispatch.pipes + 1
        /\ (pc = "prompt" /\ Waited = n) => (dispatch.pipes = n - 1 /\ Len(w) = n)
        /\ \A k \in 1..Len(w) :
             /\ k = 1 => w[k].in = StdinObj
             /\ k = n => w[k].out = StdoutObj
             /\ k < n => w[k].out.kind = "pipe_w"
             /\ k > 1 => /\ w[k].in = PipeR(w[k - 1].out.pipe)
                         /\ w[k].out.kind = "pipe_w" => w[k].out.pipe # w[k].in.pipe

\* C18, its case: a pipeline of three stages has run to its end.
C18_ThreeStagesWired ==
  /\ pc = "prompt"
  /\ WellFormed(tokens)
  /\ NonRedirecting(tokens)
  /\ NStages(tokens) = 3
  /\ Waited = 3
  /\ Len(dispatch.wired) = 3
  /\ dispatch.pipes = 2

\* C19: in an interactive session of a shell that leads its process group, a
\* child that has executed its program is in the terminal's foreground
\* group, whatever the order of the child's steps and the parent's setpgid
\* and tcsetpgrp, and no child is stopped other than from the keyboard: none
\* is stopped for a read of the terminal.
C19_RunsInForeground ==
  \A p \in ChildPids :
    (/\ shell_is_interactive
     /\ shell_pgrp = shell_pgid
     /\ WellFormed(tokens))
    => /\ procs[p].st = "run" => procs[p].pgid = fg
       /\ procs[p].st = "stopped" => procs[p].status = "suspended"

\* C20: every candidate dir/argv[0] that exec_with_pathres has built for a
\* PATH entry and handed to execv fits, with its terminator, in pathbuf,
\* which has strlen(PATH) + 1 bytes.
C20_CandidateFits ==
  \A p \in ChildPids :
    (procs[p].resolved # "none" /\ envPATH # NULL) =>
      \A k \in 2..Len(procs[p].tried) :
        strlen(procs[p].tried[k]) + 1 <= strlen(envPATH) + 1

=============================================================================
